---- MODULE Spec2Model ----
(***************************************************************************)
(* Persistence, import/export and quiz-session logic of the quiz           *)
(* application (src/app.py): the SecureQuizManager over its SQLite store   *)
(* and the Streamlit session handlers that call it.                        *)
(*                                                                         *)
(* Text is modelled by strings drawn from small universes; str.strip(),    *)
(* str.upper(), int(), chr()/ord() and the alphabetical order of names are *)
(* tables over those universes.  A CSV text is the sequence of its data    *)
(* rows, each row the mapping csv.DictReader yields (column -> field);     *)
(* the csv module's own quoting is not modelled.  Timestamps are integers  *)
(* standing for 'YYYY-MM-DD HH:MM:SS' texts, whose text order is their     *)
(* time order.                                                             *)
(***************************************************************************)
EXTENDS Integers, Sequences, FiniteSets, TLC

VARIABLES
    quiz_categories,   \* table quiz_categories: set of [id, name]
    cat_seq,           \* AUTOINCREMENT high-water mark of quiz_categories
    questions,         \* table questions: set of [id, category_id, encrypted_data]
    q_seq,             \* AUTOINCREMENT high-water mark of questions
    user_scores,       \* table user_scores: set of score rows
    s_seq,             \* AUTOINCREMENT high-water mark of user_scores
    now,               \* CURRENT_TIMESTAMP
    quiz_password,     \* os.environ['QUIZ_PASSWORD'] ("" when unset)
    key_file,          \* content of .master_key (None when the file is absent)
    salt_file,         \* content of .salt (None when the file is absent)
    key_seq,           \* number of salts drawn so far (each draw is fresh)
    master_key,        \* SecureQuizManager.master_key of the cached manager
    username,          \* st.session_state.username
    current_quiz,      \* st.session_state.current_quiz (None or a quiz)
    current_question,  \* st.session_state.current_question
    score,             \* st.session_state.score
    answers,           \* st.session_state.answers
    quiz_completed,    \* st.session_state.quiz_completed
    answer_selected,   \* indices i with st.session_state["answer_selected_i"] True
    feedback,          \* i |-> st.session_state["feedback_i"], for the keys set
    imports,           \* p |-> the locals of import call p between two rows (None: no call)
    ret                \* what the last operation returned to its caller

storeVars == <<quiz_categories, cat_seq, questions, q_seq, user_scores, s_seq>>
keyVars == <<quiz_password, key_file, salt_file, key_seq, master_key>>
sessionVars == <<username, current_quiz, current_question, score, answers,
                 quiz_completed, answer_selected, feedback>>
vars == <<storeVars, keyVars, sessionVars, imports, now, ret>>

\* Python's None where a dict, a list or an Optional[int] is expected; an
\* Optional[int] that is set is the one-element tuple Some(n)
None == <<>>
Some(n) == <<n>>
\* csv.DictReader's restval: the field of a row shorter than the header
NoneText == "<None>"

(***************************************************************************)
(* Bounds of the model.                                                    *)
(***************************************************************************)
MaxScores == 3        \* rows of user_scores
MaxPlayScores == 1    \* rows of user_scores next to a playing session
MaxQuestions == 2     \* rows ever inserted into questions
MaxCategories == 5    \* rows of quiz_categories
MaxClock == 2         \* ticks of CURRENT_TIMESTAMP
MaxKeys == 2          \* master keys ever derived
MaxCsvRows == 2       \* data rows of an uploaded CSV
MaxImporters == 2     \* import calls under way at one time

\* the script runs (threads) that can be inside an import call
Importers == 1..MaxImporters

(***************************************************************************)
(* Program constants.                                                      *)
(***************************************************************************)
default_question_limit == 15
all_categories_id == 0
leaderboard_limit == 20

(***************************************************************************)
(* Text helpers.                                                           *)
(***************************************************************************)
Range(f) == {f[i] : i \in DOMAIN f}

\* str.strip(): the texts of the universes that carry surrounding blanks
StripTable == [x \in {" ", " Q1", "Q1 ", " a", " A ", " Ann", " 1 ", " WS"} |->
    CASE x = " " -> ""
      [] x = " Q1" -> "Q1"
      [] x = "Q1 " -> "Q1"
      [] x = " a" -> "a"
      [] x = " A " -> "A"
      [] x = " Ann" -> "Ann"
      [] x = " 1 " -> "1"
      [] x = " WS" -> "World & Setting"]

strip(s) == IF s \in DOMAIN StripTable THEN StripTable[s] ELSE s

\* str.upper() on the answer letters
upper(s) ==
    CASE s = "a" -> "A"
      [] s = "b" -> "B"
      [] s = "c" -> "C"
      [] s = "d" -> "D"
      [] s = "e" -> "E"
      [] OTHER -> s

\* int(): decimal texts and their values; any other text raises ValueError
IntTexts == [x \in {"-1", "0", "1", "2", "3", "8", "9", "10", "34", "35"} |->
    CASE x = "-1" -> 0 - 1
      [] x = "0" -> 0
      [] x = "1" -> 1
      [] x = "2" -> 2
      [] x = "3" -> 3
      [] x = "8" -> 8
      [] x = "9" -> 9
      [] x = "10" -> 10
      [] x = "34" -> 34
      [] x = "35" -> 35]

IsIntText(s) == s \in DOMAIN IntTexts
int(s) == IntTexts[s]

\* ord() and chr() on the answer letters
ord(c) ==
    CASE c = "A" -> 65
      [] c = "B" -> 66
      [] c = "C" -> 67
      [] c = "D" -> 68
      [] c = "E" -> 69

chr(n) ==
    CASE n = 65 -> "A"
      [] n = 66 -> "B"
      [] n = 67 -> "C"
      [] n = 68 -> "D"
      [] n = 69 -> "E"

\* chr(64 + q['correct_answer']): 1-based index to letter
correct_letter(correct_answer) == chr(64 + correct_answer)

\* ord(correct_answer) - ord('A') + 1: letter to 1-based index
correct_idx(letter) == ord(letter) - ord("A") + 1

\* ORDER BY name: rank of each category name in text order
NameRank(n) ==
    CASE n = "All Categories" -> 1
      [] n = "Character Knowledge" -> 2
      [] n = "New Cat" -> 3
      [] n = "Quotes & Dialogues" -> 4
      [] n = "Romance & Relationships" -> 5
      [] n = "World & Setting" -> 6
      [] OTHER -> 7

\* the sequences that list the finite set S in increasing key order; rows with
\* equal keys come in any order (SQL leaves it open)
\* before[<<a, b>>] says that a sorts strictly before b
Orderings(S, before) ==
    {f \in [1..Cardinality(S) -> S] :
        /\ \A i, j \in DOMAIN f : i # j => f[i] # f[j]
        /\ \A i, j \in DOMAIN f : i < j => ~before[<<f[j], f[i]>>]}

Head_n(s, n) == IF Len(s) <= n THEN s ELSE SubSeq(s, 1, n)

(***************************************************************************)
(* Encryption codec.  A Fernet token is the pair of the key it was made    *)
(* under and the JSON text it carries; the JSON text of a dict is the      *)
(* sequence of its (key, value) members in insertion order.  The random IV *)
(* and the timestamp of a token do not affect decryption and are left out. *)
(***************************************************************************)
json_dumps(data) ==
    << <<"category_id", data.category_id>>,
       <<"question", data.question>>,
       <<"options", data.options>>,
       <<"correct_answer", data.correct_answer>>,
       <<"explanation", data.explanation>> >>

json_loads(text) ==
    [k \in {text[i][1] : i \in DOMAIN text} |->
        text[CHOOSE i \in DOMAIN text : text[i][1] = k][2]]

fernet_encrypt(key, payload) == [key |-> key, payload |-> payload]

\* InvalidToken when the token was made under another key
fernet_decrypt_ok(key, token) == token.key = key

\* (variant: the answer index stored 0-based)
encrypt_data_zero_based(data) ==
    fernet_encrypt(master_key, json_dumps([data EXCEPT !.correct_answer = @ - 1]))

encrypt_data(data) == fernet_encrypt(master_key, json_dumps(data))

decrypt_data(encrypted_data) ==
    IF fernet_decrypt_ok(master_key, encrypted_data)
    THEN json_loads(encrypted_data.payload)
    ELSE None

\* the dict a question is stored as (add_question / update_question)
question_data(category_id, question, options, correct_answer, explanation) ==
    [category_id |-> category_id, question |-> question, options |-> options,
     correct_answer |-> correct_answer, explanation |-> explanation]

\* decrypted_data['id'] = question_id
with_id(data, question_id) ==
    [k \in DOMAIN data \cup {"id"} |-> IF k = "id" THEN question_id ELSE data[k]]

(***************************************************************************)
(* Relational store: statements over the three tables.                     *)
(***************************************************************************)
default_categories ==
    <<"Character Knowledge", "Romance & Relationships",
      "Quotes & Dialogues", "World & Setting">>

\* (variant: the ids are counted from 0)
RECURSIVE insert_categories_from_zero(_, _, _)
insert_categories_from_zero(cats, seq0, names) ==
    IF names = <<>> THEN [cats |-> cats, seq |-> seq0]
    ELSE insert_categories_from_zero(cats \cup {[id |-> seq0, name |-> Head(names)]},
                                     seq0 + 1, Tail(names))

\* INSERT INTO quiz_categories of the names of seq, in order, from id seq0 + 1
RECURSIVE insert_categories(_, _, _)
insert_categories(cats, seq0, names) ==
    IF names = <<>> THEN [cats |-> cats, seq |-> seq0]
    ELSE insert_categories(cats \cup {[id |-> seq0 + 1, name |-> Head(names)]},
                           seq0 + 1, Tail(names))

\* SELECT id, name FROM quiz_categories ORDER BY name
get_categories(cats) ==
    CHOOSE f \in Orderings(cats, [p \in cats \X cats |-> NameRank(p[1].name) < NameRank(p[2].name)]) : TRUE

\* {name: cat_id for cat_id, name, _ in categories}
name_to_id(cats) == [n \in {c.name : c \in cats} |-> (CHOOSE c \in cats : c.name = n).id]

\* (variant: the loop ends at the first row that fails to decrypt)
RECURSIVE decrypt_rows_until_failure(_)
decrypt_rows_until_failure(rows) ==
    IF rows = <<>> THEN <<>>
    ELSE LET d == decrypt_data(Head(rows).encrypted_data)
         IN  IF d # None
             THEN <<with_id(d, Head(rows).id)>> \o decrypt_rows_until_failure(Tail(rows))
             ELSE <<>>

\* the decrypt-and-filter loop shared by the two question reads
RECURSIVE decrypt_rows(_)
decrypt_rows(rows) ==
    IF rows = <<>> THEN <<>>
    ELSE LET d == decrypt_data(Head(rows).encrypted_data)
         IN  (IF d # None THEN <<with_id(d, Head(rows).id)>> ELSE <<>>)
             \o decrypt_rows(Tail(rows))

\* (variant: the LIMIT clause dropped)
random_sample_unlimited(category_id, limit) ==
    LET rows == {q \in questions : q.category_id = category_id}
    IN  Orderings(rows, [p \in rows \X rows |-> FALSE])

\* the results SELECT ... WHERE category_id = ? ORDER BY RANDOM() LIMIT ? can give
random_sample(category_id, limit) ==
    LET rows == {q \in questions : q.category_id = category_id}
    IN  {Head_n(f, limit) : f \in Orderings(rows, [p \in rows \X rows |-> FALSE])}

\* get_questions_by_category: every list the call can return
get_questions_by_category(category_id, limit) ==
    {decrypt_rows(sample) : sample \in random_sample(category_id, limit)}

\* SELECT ... [WHERE category_id = ?] ORDER BY id
select_questions(category_id) ==
    LET rows == IF category_id # None /\ category_id[1] # 0
                THEN {q \in questions : q.category_id = category_id[1]}
                ELSE questions
    IN  CHOOSE f \in Orderings(rows, [p \in rows \X rows |-> p[1].id < p[2].id]) : TRUE

get_all_questions(category_id) == decrypt_rows(select_questions(category_id))

\* INSERT INTO questions (category_id, encrypted_data): the table after add_question
add_question(qs, seq0, category_id, question, options, correct_answer, explanation) ==
    qs \cup {[id |-> seq0 + 1, category_id |-> category_id,
              encrypted_data |-> encrypt_data(question_data(
                  category_id, question, options, correct_answer, explanation))]}

\* UPDATE questions SET category_id = ?, encrypted_data = ? WHERE id = ?
update_question_data_only(qs, question_id, category_id, question, options, correct_answer, explanation) ==
    {IF q.id = question_id
     THEN [q EXCEPT !.encrypted_data = encrypt_data(question_data(
                        category_id, question, options, correct_answer, explanation))]
     ELSE q : q \in qs}
update_question(qs, question_id, category_id, question, options, correct_answer, explanation) ==
    {IF q.id = question_id
     THEN [q EXCEPT !.category_id = category_id,
                    !.encrypted_data = encrypt_data(question_data(
                        category_id, question, options, correct_answer, explanation))]
     ELSE q : q \in qs}

\* DELETE FROM questions WHERE id = ?
delete_question(qs, question_id) == {q \in qs : q.id # question_id}

(***************************************************************************)
(* CSV rows.  row.get(field, '') is '' for a column the header lacks and   *)
(* None for a row shorter than the header; a row on which the csv reader   *)
(* itself fails is the marker csv_error.                                   *)
(***************************************************************************)
csv_error == [csv_error |-> TRUE]
is_csv_error(row) == "csv_error" \in DOMAIN row

row_get(row, field) == IF field \in DOMAIN row THEN row[field] ELSE ""

error(row_num, kind, detail) == [row |-> row_num, kind |-> kind, detail |-> detail]

\* for field in required_fields: if not row.get(field, '').strip(): errors.append(...)
\* None.strip() raises AttributeError, which ends the row
RECURSIVE check_required(_, _, _, _)
check_required(row, fields, row_num, errors) ==
    IF fields = <<>> THEN [errors |-> errors, raised |-> FALSE]
    ELSE LET v == row_get(row, Head(fields))
         IN  IF v = NoneText
             THEN [errors |-> Append(errors, error(row_num, "Exception", Head(fields))),
                   raised |-> TRUE]
             ELSE check_required(row, Tail(fields), row_num,
                      IF strip(v) = ""
                      THEN Append(errors, error(row_num, "Missing", Head(fields)))
                      ELSE errors)

\* errors and errors[-1].startswith(f"Row {row_num}"): an earlier row's number
\* is smaller, so no earlier message starts with this row's prefix
last_error_is_of_any_row(errors, row_num) == errors # <<>>
last_error_is_of(errors, row_num) ==
    errors # <<>> /\ errors[Len(errors)].row = row_num

question_required_fields ==
    <<"Category", "Question", "Option A", "Option B", "Option C", "Option D",
      "Correct Answer">>

\* if correct_answer not in ['A', 'B', 'C', 'D']
valid_answers_with_E == {"A", "B", "C", "D", "E"}
valid_answers == {"A", "B", "C", "D"}

\* quiz_categories.name is TEXT NOT NULL UNIQUE: an INSERT of a name the table
\* holds raises sqlite3.IntegrityError
unique_violation_never(cats, name) == FALSE
unique_violation(cats, name) == \E c \in cats : c.name = name

\* one pass of the row loop of import_questions_from_csv; st carries the store
\* tables, the call's category_map, imported_count and errors
import_question_row(st, row, row_num) ==
    LET chk == check_required(row, question_required_fields, row_num, st.errors)
        category_name == strip(row["Category"])
        is_new == category_name \notin DOMAIN st.category_map
        \* name TEXT NOT NULL UNIQUE: the INSERT raises IntegrityError on a name
        \* the table already holds
        clash == is_new /\ unique_violation(st.cats, category_name)
        category_id == IF is_new THEN st.cat_seq + 1 ELSE st.category_map[category_name]
        st1 == IF is_new
               THEN [st EXCEPT
                       !.cats = @ \cup {[id |-> category_id, name |-> category_name]},
                       !.cat_seq = category_id,
                       !.category_map = [n \in DOMAIN @ \cup {category_name} |->
                                            IF n = category_name THEN category_id ELSE @[n]]]
               ELSE st
        correct_answer == upper(strip(row["Correct Answer"]))
        options == <<strip(row["Option A"]), strip(row["Option B"]),
                     strip(row["Option C"]), strip(row["Option D"])>>
        explanation == row_get(row, "Explanation")
    IN  IF chk.raised \/ last_error_is_of(chk.errors, row_num)
        THEN [st EXCEPT !.errors = chk.errors]
        ELSE IF clash
        THEN [st EXCEPT !.errors = Append(@, error(row_num, "Exception", "IntegrityError"))]
        ELSE IF correct_answer \notin valid_answers
        THEN [st1 EXCEPT !.errors =
                 Append(@, error(row_num, "Invalid correct answer", correct_answer))]
        ELSE IF explanation = NoneText
        THEN [st1 EXCEPT !.errors = Append(@, error(row_num, "Exception", "Explanation"))]
        ELSE [st1 EXCEPT
                !.questions = add_question(@, st1.q_seq, category_id,
                                  strip(row["Question"]), options,
                                  correct_idx(correct_answer), strip(explanation)),
                !.q_seq = @ + 1,
                !.imported_count = @ + 1]

\* for row_num, row in enumerate(reader, start=2): a csv.Error of the reader
\* leaves the loop through the outer except
RECURSIVE import_question_rows(_, _, _)
import_question_rows(st, rows, row_num) ==
    IF rows = <<>> THEN st
    ELSE IF is_csv_error(Head(rows)) THEN [st EXCEPT !.parse_failed = TRUE]
    ELSE import_question_rows(import_question_row(st, Head(rows), row_num),
                              Tail(rows), row_num + 1)

\* import_questions_from_csv on the tables (cats, seqc, qs, seqq): the final
\* loop state; the returned dict is import_result of it
import_questions_from_csv(cats, seqc, qs, seqq, csv_content) ==
    import_question_rows(
        [cats |-> cats, cat_seq |-> seqc, questions |-> qs, q_seq |-> seqq,
         category_map |-> name_to_id(cats), imported_count |-> 0, errors |-> <<>>,
         parse_failed |-> FALSE],
        csv_content, 2)

\* the dict import_questions_from_csv returns
questions_import_result(st) ==
    IF st.parse_failed
    THEN [op |-> "import_questions", success |-> FALSE, imported_count |-> 0,
          errors |-> <<>>, error |-> "Failed to parse CSV"]
    ELSE [op |-> "import_questions", success |-> TRUE,
          imported_count |-> st.imported_count, errors |-> st.errors]

(***************************************************************************)
(* Key derivation and manager construction.                                *)
(***************************************************************************)
\* PBKDF2 of the passphrase under a salt: a key is known by the pair
derive_key(password, salt) == [password |-> password, salt |-> salt]

\* if not password, of os.environ.get('QUIZ_PASSWORD'): None when the variable
\* is not set
not_password_only_unset(password) == password = NoneText
not_password(password) == password \in {NoneText, ""}

\* _get_or_create_master_key: the key files and the key after the call;
\* halted when st.stop() ends the script
get_or_create_master_key_from_env ==
    IF not_password(quiz_password)
    THEN [key_file |-> key_file, salt_file |-> salt_file, key_seq |-> key_seq,
          master_key |-> key_file, halted |-> key_file = None]
    ELSE [key_file |-> derive_key(quiz_password, key_seq + 1),
          salt_file |-> Some(key_seq + 1), key_seq |-> key_seq + 1,
          master_key |-> derive_key(quiz_password, key_seq + 1), halted |-> FALSE]
get_or_create_master_key ==
    IF key_file # None
    THEN [key_file |-> key_file, salt_file |-> salt_file, key_seq |-> key_seq,
          master_key |-> key_file, halted |-> FALSE]
    ELSE IF not_password(quiz_password)
    THEN [key_file |-> key_file, salt_file |-> salt_file, key_seq |-> key_seq,
          master_key |-> None, halted |-> TRUE]
    ELSE LET salt == key_seq + 1
             key == derive_key(quiz_password, salt)
         IN  [key_file |-> key, salt_file |-> Some(salt), key_seq |-> salt,
              master_key |-> key, halted |-> FALSE]

\* init_database: the tables exist; default categories go into an empty table
init_database_always_seeds(cats, seq0) ==
    insert_categories(cats, seq0, default_categories)
init_database(cats, seq0) ==
    IF Cardinality(cats) = 0
    THEN insert_categories(cats, seq0, default_categories)
    ELSE [cats |-> cats, seq |-> seq0]

\* SecureQuizManager(): get_quiz_manager() on a cold cache (process start, or
\* the rerun after st.cache_resource.clear())
Construct_seeding_again(cats, seq0) ==
    LET k == get_or_create_master_key
        db == IF k.halted THEN [cats |-> cats, seq |-> seq0]
              ELSE insert_categories(cats, seq0, default_categories)
    IN  /\ key_file' = k.key_file
        /\ salt_file' = k.salt_file
        /\ key_seq' = k.key_seq
        /\ master_key' = k.master_key
        /\ quiz_categories' = db.cats
        /\ cat_seq' = db.seq
        /\ UNCHANGED quiz_password
Construct(cats, seq0) ==
    LET k == get_or_create_master_key
        db == IF k.halted THEN [cats |-> cats, seq |-> seq0] ELSE init_database(cats, seq0)
    IN  /\ key_file' = k.key_file
        /\ salt_file' = k.salt_file
        /\ key_seq' = k.key_seq
        /\ master_key' = k.master_key
        /\ quiz_categories' = db.cats
        /\ cat_seq' = db.seq
        /\ UNCHANGED quiz_password

Init ==
    /\ quiz_password = "pw1"
    /\ key_file = derive_key("pw1", 1)
    /\ salt_file = Some(1)
    /\ key_seq = 1
    /\ master_key = key_file
    /\ quiz_categories = insert_categories({}, 0, default_categories).cats
    /\ cat_seq = 4
    /\ questions = {}
    /\ q_seq = 0
    /\ user_scores = {}
    /\ s_seq = 0
    /\ now = 0
    /\ username = ""
    /\ current_quiz = None
    /\ current_question = 0
    /\ score = 0
    /\ answers = <<>>
    /\ quiz_completed = FALSE
    /\ answer_selected = {}
    /\ feedback = <<>>
    /\ imports = [p \in Importers |-> None]
    /\ ret = [op |-> "init"]

\* the operator deletes .master_key while the application is down or running
RemoveKeyFile ==
    /\ UNCHANGED imports
    /\ key_file # None
    /\ key_seq < MaxKeys
    /\ key_file' = None
    /\ ret' = [op |-> "remove_key_file"]
    /\ UNCHANGED <<storeVars, sessionVars, now, quiz_password, salt_file, key_seq,
                   master_key>>

\* the process starts again: every session is new, the manager is constructed
Restart ==
    /\ imports' = [p \in Importers |-> None]
    /\ Construct(quiz_categories, cat_seq)
    /\ username' = ""
    /\ current_quiz' = None
    /\ current_question' = 0
    /\ score' = 0
    /\ answers' = <<>>
    /\ quiz_completed' = FALSE
    /\ answer_selected' = {}
    /\ feedback' = <<>>
    /\ ret' = [op |-> "restart"]
    /\ UNCHANGED <<questions, q_seq, user_scores, s_seq, now>>

\* the environment of the next run: QUIZ_PASSWORD set to a value or unset
SetPassword(passwords) ==
    /\ \E password \in passwords : quiz_password' = password
    /\ ret' = [op |-> "set_password"]
    /\ UNCHANGED <<storeVars, sessionVars, imports, now, key_file, salt_file, key_seq,
                   master_key>>

\* before the first run: no key file, no salt file, no database, no manager
InitFirstRun ==
    /\ quiz_password \in {NoneText, "", "pw1"}
    /\ key_file = None
    /\ salt_file = None
    /\ key_seq = 0
    /\ master_key = None
    /\ quiz_categories = {}
    /\ cat_seq = 0
    /\ questions = {}
    /\ q_seq = 0
    /\ user_scores = {}
    /\ s_seq = 0
    /\ now = 0
    /\ username = ""
    /\ current_quiz = None
    /\ current_question = 0
    /\ score = 0
    /\ answers = <<>>
    /\ quiz_completed = FALSE
    /\ answer_selected = {}
    /\ feedback = <<>>
    /\ imports = [p \in Importers |-> None]
    /\ ret = [op |-> "init"]

\* CURRENT_TIMESTAMP moves on
Tick ==
    /\ UNCHANGED imports
    /\ now < MaxClock
    /\ now' = now + 1
    /\ UNCHANGED <<storeVars, keyVars, sessionVars, ret>>

(***************************************************************************)
(* Admin handlers on questions.                                            *)
(***************************************************************************)
form(category, question, options, correct_answer, explanation) ==
    [category |-> category, question |-> question, options |-> options,
     correct_answer |-> correct_answer, explanation |-> explanation]

\* what an admin types into the add / edit form
QuestionForms ==
    { form("Character Knowledge", "Q1", <<"a", "b", "c", "d">>, "A", "hint"),
      form("World & Setting", " Q1", <<"a", "b", "c", "d">>, "B", ""),
      form("Character Knowledge", "Q1", <<" ", "b", "c", "d">>, "D", ""),
      form("World & Setting", "", <<"a", "b", "c", "d">>, "A", "") }

\* the form of an admin at work beside other writers
StoreForms == { form("World & Setting", "Q2", <<"a", "b", "c", "d">>, "B", "") }

\* if question_text and option1 and option2 and option3 and option4
form_filled(f) == f.question # "" /\ \A i \in 1..4 : f.options[i] # ""

\* render_add_question_section, "Add Question" pressed
AddQuestion(forms) ==
    /\ UNCHANGED imports
    /\ master_key # None
    /\ \E f \in forms :
        /\ f.category \in DOMAIN name_to_id(quiz_categories)
        /\ IF form_filled(f)
           THEN /\ q_seq < MaxQuestions
                /\ questions' = add_question(questions, q_seq,
                       name_to_id(quiz_categories)[f.category], f.question, f.options,
                       correct_idx(f.correct_answer), f.explanation)
                /\ q_seq' = q_seq + 1
                /\ ret' = [op |-> "add_question", ok |-> TRUE, id |-> q_seq + 1,
                           data |-> question_data(
                               name_to_id(quiz_categories)[f.category], f.question,
                               f.options, correct_idx(f.correct_answer), f.explanation)]
           ELSE /\ ret' = [op |-> "add_question", ok |-> FALSE]
                /\ UNCHANGED <<questions, q_seq>>
    /\ UNCHANGED <<quiz_categories, cat_seq, user_scores, s_seq, keyVars, sessionVars, now>>

\* render_question_action_buttons, "Update Question" pressed on a listed question
UpdateQuestion(forms) ==
    /\ UNCHANGED imports
    /\ master_key # None
    /\ \E sel \in Range(get_all_questions(None)), f \in forms :
        /\ f.category \in DOMAIN name_to_id(quiz_categories)
        /\ IF form_filled(f)
           THEN /\ questions' = update_question(questions, sel.id,
                       name_to_id(quiz_categories)[f.category], f.question, f.options,
                       correct_idx(f.correct_answer), f.explanation)
                /\ ret' = [op |-> "update_question", ok |-> TRUE, id |-> sel.id]
           ELSE /\ ret' = [op |-> "update_question", ok |-> FALSE]
                /\ UNCHANGED questions
    /\ UNCHANGED <<quiz_categories, cat_seq, q_seq, user_scores, s_seq, keyVars,
                   sessionVars, now>>

\* render_question_action_buttons, "Delete Question" pressed on a listed question
DeleteQuestion ==
    /\ UNCHANGED imports
    /\ master_key # None
    /\ \E sel \in Range(get_all_questions(None)) :
        /\ questions' = delete_question(questions, sel.id)
        /\ ret' = [op |-> "delete_question", id |-> sel.id]
    /\ UNCHANGED <<quiz_categories, cat_seq, q_seq, user_scores, s_seq, keyVars,
                   sessionVars, now>>

\* get_questions_by_category(category_id, limit)
GetQuestionsByCategory ==
    /\ UNCHANGED imports
    /\ master_key # None
    /\ \E c \in quiz_categories, limit \in {1, 2, default_question_limit} :
       \E result \in get_questions_by_category(c.id, limit) :
          ret' = [op |-> "get_questions_by_category", category_id |-> c.id,
                  limit |-> limit, questions |-> result]
    /\ UNCHANGED <<storeVars, keyVars, sessionVars, now>>

\* get_all_questions(category_id): the edit section's list
GetAllQuestions ==
    /\ UNCHANGED imports
    /\ master_key # None
    /\ \E category_id \in {None} \cup {Some(c.id) : c \in quiz_categories} :
          ret' = [op |-> "get_all_questions", category_id |-> category_id,
                  questions |-> get_all_questions(category_id)]
    /\ UNCHANGED <<storeVars, keyVars, sessionVars, now>>

\* the sequences over S of length at most n
SeqsUpTo(S, n) == UNION {[1..k -> S] : k \in 0..n}

\* a data row under the eight-column questions header
qrow(category, question, a, b, c, d, correct, explanation) ==
    [col \in {"Category", "Question", "Option A", "Option B", "Option C", "Option D",
              "Correct Answer", "Explanation"} |->
        CASE col = "Category" -> category
          [] col = "Question" -> question
          [] col = "Option A" -> a
          [] col = "Option B" -> b
          [] col = "Option C" -> c
          [] col = "Option D" -> d
          [] col = "Correct Answer" -> correct
          [] col = "Explanation" -> explanation]

\* a data row under a questions header that has no Explanation column
qrow_no_explanation(category, question, a, b, c, d, correct) ==
    [col \in {"Category", "Question", "Option A", "Option B", "Option C", "Option D",
              "Correct Answer"} |->
        qrow(category, question, a, b, c, d, correct, "")[col]]

\* export_questions_to_csv: the data rows written after the header
export_questions_to_csv ==
    LET qs == get_all_questions(None)
        category_map == [id \in {c.id : c \in quiz_categories} |->
                            (CHOOSE c \in quiz_categories : c.id = id).name]
    IN  [i \in DOMAIN qs |->
            qrow(IF qs[i].category_id \in DOMAIN category_map
                 THEN category_map[qs[i].category_id] ELSE "Unknown",
                 qs[i].question, qs[i].options[1], qs[i].options[2],
                 qs[i].options[3], qs[i].options[4],
                 correct_letter(qs[i].correct_answer),
                 IF "explanation" \in DOMAIN qs[i] THEN qs[i].explanation ELSE "")]

\* rows of the question files an admin uploads
QuestionCsvRows ==
    { qrow("Character Knowledge", "Q1", "a", "b", "c", "d", "A", "hint"),
      qrow("New Cat", " Q1", " a", "b", "c", "d", " a", ""),
      qrow("New Cat", "Q1", "a", "b", "c", "d", "E", ""),
      qrow("World & Setting", "Q1", "a", "b", "c", "d", "e", "hint"),
      qrow("Character Knowledge", "", "a", "b", "c", "d", "A", "") }

QuestionCsvFiles == SeqsUpTo(QuestionCsvRows, MaxCsvRows)

\* render_database_export_import_section, "Export Questions to CSV" pressed
ExportQuestions ==
    /\ UNCHANGED imports
    /\ master_key # None
    /\ ret' = [op |-> "export_questions", csv |-> export_questions_to_csv]
    /\ UNCHANGED <<storeVars, keyVars, sessionVars, now>>

\* render_database_export_import_section, "Import Questions" pressed: the import,
\* then on success the cache is cleared and the rerun constructs the manager
ImportQuestions(files) ==
    /\ UNCHANGED imports
    /\ master_key # None
    /\ \E csv_content \in files :
        LET st == import_questions_from_csv(quiz_categories, cat_seq, questions, q_seq,
                                            csv_content)
        IN  /\ st.q_seq <= MaxQuestions
            /\ Cardinality(st.cats) <= MaxCategories
            /\ questions' = st.questions
            /\ q_seq' = st.q_seq
            /\ ret' = questions_import_result(st) @@
                       [csv_content |-> csv_content,
                        before |-> [questions |-> questions,
                                    quiz_categories |-> quiz_categories]]
            /\ IF st.parse_failed
               THEN /\ quiz_categories' = st.cats
                    /\ cat_seq' = st.cat_seq
                    /\ UNCHANGED keyVars
               ELSE Construct(st.cats, st.cat_seq)
    /\ UNCHANGED <<user_scores, s_seq, sessionVars, now>>

NextQuestions ==
    \/ AddQuestion(QuestionForms)
    \/ UpdateQuestion(QuestionForms)
    \/ DeleteQuestion
    \/ GetQuestionsByCategory
    \/ GetAllQuestions
    \/ ExportQuestions
    \/ RemoveKeyFile
    \/ Restart

\* the question store under the admin's form handlers, its reads and key rotation
SpecQuestions == Init /\ [][NextQuestions]_vars

\* import_questions_from_csv entered by script run p: the reader is built and
\* category_map is read from the table; the rows follow one store call at a time
BeginImportQuestions(p, files) ==
    /\ master_key # None
    /\ imports[p] = None
    /\ \E csv_content \in files :
        imports' = [imports EXCEPT ![p] =
                       Some([csv_content |-> csv_content, next |-> 1,
                             category_map |-> name_to_id(quiz_categories),
                             imported_count |-> 0, errors |-> <<>>])]
    /\ ret' = [op |-> "import_questions_begin", importer |-> p]
    /\ UNCHANGED <<storeVars, keyVars, sessionVars, now>>

\* the loop state of run p over the tables as they are now
import_state(p) ==
    LET l == imports[p][1]
    IN  [cats |-> quiz_categories, cat_seq |-> cat_seq, questions |-> questions,
         q_seq |-> q_seq, category_map |-> l.category_map,
         imported_count |-> l.imported_count, errors |-> l.errors,
         parse_failed |-> FALSE]

\* one pass of the row loop by run p; a csv.Error of the reader ends the call
\* through the outer except
ImportQuestionsRow(p) ==
    /\ imports[p] # None
    /\ LET l == imports[p][1]
           row == l.csv_content[l.next]
           st == import_question_row(import_state(p), row, l.next + 1)
       IN  /\ l.next <= Len(l.csv_content)
           /\ IF is_csv_error(row)
              THEN /\ imports' = [imports EXCEPT ![p] = None]
                   /\ ret' = [questions_import_result(
                                 [import_state(p) EXCEPT !.parse_failed = TRUE])
                                EXCEPT !.op = "import_questions_end"] @@
                              [importer |-> p]
                   /\ UNCHANGED storeVars
              ELSE /\ st.q_seq <= MaxQuestions
                   /\ Cardinality({c.name : c \in st.cats}) <= MaxCategories
                   /\ quiz_categories' = st.cats
                   /\ cat_seq' = st.cat_seq
                   /\ questions' = st.questions
                   /\ q_seq' = st.q_seq
                   /\ imports' = [imports EXCEPT ![p] =
                                     Some([l EXCEPT !.next = @ + 1,
                                                    !.category_map = st.category_map,
                                                    !.imported_count = st.imported_count,
                                                    !.errors = st.errors])]
                   /\ ret' = [op |-> "import_questions_row", importer |-> p,
                              row |-> row, row_num |-> l.next + 1]
                   /\ UNCHANGED <<user_scores, s_seq>>
    /\ UNCHANGED <<keyVars, sessionVars, now>>

\* the reader of run p is exhausted: the dict is returned, the handler clears the
\* cache and the rerun constructs the manager
EndImportQuestions(p) ==
    /\ imports[p] # None
    /\ imports[p][1].next > Len(imports[p][1].csv_content)
    /\ imports' = [imports EXCEPT ![p] = None]
    /\ ret' = [questions_import_result(import_state(p))
                 EXCEPT !.op = "import_questions_end"] @@ [importer |-> p]
    /\ Construct(quiz_categories, cat_seq)
    /\ UNCHANGED <<questions, q_seq, user_scores, s_seq, sessionVars, now>>

ConcurrentQuestionFiles ==
    { <<qrow("New Cat", "Q1", "a", "b", "c", "d", "A", "")>>,
      <<qrow(" New Cat", "Q2", "a", "b", "c", "d", "b", "")>>,
      <<qrow("World & Setting", "Q3", "a", "b", "c", "d", "C", ""),
        qrow("New Cat", "Q4", "a", "b", "c", "d", "D", "")>> }

NextConcurrentImport ==
    \/ \E p \in Importers : BeginImportQuestions(p, ConcurrentQuestionFiles)
    \/ \E p \in Importers : ImportQuestionsRow(p)
    \/ \E p \in Importers : EndImportQuestions(p)
    \/ Restart

\* question imports of several script runs, interleaved row by row, and restarts
SpecConcurrentImport == Init /\ [][NextConcurrentImport]_vars

Passwords == {NoneText, "", "pw1", "pw2"}

NextStartup ==
    \/ Restart
    \/ SetPassword(Passwords)
    \/ RemoveKeyFile
    \/ AddQuestion(StoreForms)
    \/ GetAllQuestions

\* runs of the process from the first one on, under a changing QUIZ_PASSWORD,
\* with questions written and read under the key of the run
SpecStartup == InitFirstRun /\ [][NextStartup]_vars

NextQuestionImport ==
    \/ ImportQuestions(QuestionCsvFiles)
    \/ ExportQuestions
    \/ GetAllQuestions

\* the question store under CSV import and export
SpecQuestionImport == Init /\ [][NextQuestionImport]_vars

(***************************************************************************)
(* Score records and the leaderboard.  A percentage is kept in tenths of a *)
(* percent, ROUND(score * 100.0 / total_questions, 1) * 10, and is None    *)
(* (SQL NULL) when total_questions is 0; an average is the exact fraction  *)
(* [num, den] in lowest terms, the value SQLite approximates in floating   *)
(* point.  No score/total pair of the model lies exactly between two       *)
(* tenths, so the direction ROUND takes there is not modelled.             *)
(***************************************************************************)
\* 'YYYY-MM-DD HH:MM:SS' texts of the Completed At column and the times they name
\* the text SQLite gives for a completed_at
time_text(t) == "2024-01-01 00:00:0" \o ToString(t)

TimeTexts == [x \in {time_text(t) : t \in 0..(MaxClock + 1)} |->
    CHOOSE t \in 0..(MaxClock + 1) : time_text(t) = x]

\* INSERT INTO user_scores: the table after the insert
insert_score_replacing_user(scores, seq0, name, category_id, points, total_questions, completed_at) ==
    {r \in scores : r.username # name} \cup
        {[id |-> seq0 + 1, username |-> name, category_id |-> category_id,
          score |-> points, total_questions |-> total_questions,
          completed_at |-> completed_at]}
insert_score(scores, seq0, name, category_id, points, total_questions, completed_at) ==
    scores \cup {[id |-> seq0 + 1, username |-> name, category_id |-> category_id,
                  score |-> points, total_questions |-> total_questions,
                  completed_at |-> completed_at]}

\* save_score: None becomes the sentinel id of "all categories"
save_score(scores, seq0, name, category_id, points, total_questions) ==
    LET db_category_id == IF category_id = None THEN all_categories_id
                          ELSE category_id[1]
    IN  insert_score(scores, seq0, name, db_category_id, points, total_questions, now)

\* ROUND((score * 100.0 / total_questions), 1), in tenths of a percent
percentage(r) ==
    IF r.total_questions = 0 THEN None
    ELSE Some((2000 * r.score + r.total_questions) \div (2 * r.total_questions))

\* ORDER BY x DESC for nullable x: NULL is the smallest value
desc_before(x, y) == x # None /\ (y = None \/ x[1] > y[1])

\* ORDER BY x ASC
asc_before_latest_first(x, y) == x > y
asc_before(x, y) == x < y

\* the rows of get_leaderboard(category_id): every order the query can give
category_leaderboard(category_id, limit) ==
    LET rows == {r \in user_scores : r.category_id = category_id}
        before == [p \in rows \X rows |->
                      \/ desc_before(percentage(p[1]), percentage(p[2]))
                      \/ /\ percentage(p[1]) = percentage(p[2])
                         /\ asc_before(p[1].completed_at, p[2].completed_at)]
    IN  {[i \in DOMAIN Head_n(f, limit) |->
            [username |-> f[i].username, score |-> f[i].score,
             total_questions |-> f[i].total_questions,
             percentage |-> percentage(f[i]), completed_at |-> f[i].completed_at]] :
         f \in Orderings(rows, before)}

RECURSIVE gcd(_, _)
gcd(a, b) == IF b = 0 THEN a ELSE gcd(b, a % b)

\* the fraction n/d in lowest terms (n >= 0, d > 0)
fraction(n, d) == [num |-> n \div gcd(n, d), den |-> d \div gcd(n, d)]

\* SUM(score * 100.0 / total_questions) over rows whose value is not NULL
RECURSIVE sum_percent(_)
sum_percent(S) ==
    IF S = {} THEN fraction(0, 1)
    ELSE LET r == CHOOSE x \in S : TRUE
             rest == sum_percent(S \ {r})
         IN  fraction(rest.num * r.total_questions + 100 * r.score * rest.den,
                      rest.den * r.total_questions)

\* AVG(score * 100.0 / total_questions): NULL values are skipped, NULL if all are
avg_percentage(S) ==
    LET defined == {r \in S : r.total_questions # 0}
        total == sum_percent(defined)
    IN  IF defined = {} THEN None
        ELSE fraction(total.num, total.den * Cardinality(defined))

\* MAX(completed_at)
max_completed_at(S) ==
    (CHOOSE r \in S : \A x \in S : x.completed_at <= r.completed_at).completed_at

avg_desc_before(x, y) ==
    x # None /\ (y = None \/ x.num * y.den > y.num * x.den)

avg_equal(x, y) ==
    IF x = None \/ y = None THEN x = None /\ y = None
    ELSE x.num * y.den = y.num * x.den

\* the rows of get_leaderboard(None): GROUP BY username
overall_leaderboard(limit) ==
    LET groups == {[username |-> u,
                    avg_percentage |-> avg_percentage({r \in user_scores : r.username = u}),
                    quizzes_taken |-> Cardinality({r \in user_scores : r.username = u}),
                    last_quiz |-> max_completed_at({r \in user_scores : r.username = u})] :
                   u \in {r.username : r \in user_scores}}
        before == [p \in groups \X groups |->
                      \/ avg_desc_before(p[1].avg_percentage, p[2].avg_percentage)
                      \/ /\ avg_equal(p[1].avg_percentage, p[2].avg_percentage)
                         /\ asc_before(p[1].last_quiz, p[2].last_quiz)]
    IN  {Head_n(f, limit) : f \in Orderings(groups, before)}

\* get_leaderboard(category_id, limit): every list the call can return
get_leaderboard(category_id, limit) ==
    IF category_id # None THEN category_leaderboard(category_id[1], limit)
    ELSE overall_leaderboard(limit)

leaderboard_required_fields == <<"Username", "Category", "Score", "Total Questions">>

\* if score < 0 or score > total_questions
score_out_of_range_no_upper(points, total_questions) == points < 0
score_out_of_range(points, total_questions) == points < 0 \/ points > total_questions

\* one pass of the row loop of import_leaderboard_from_csv; st carries the
\* score table, the call's category_map, imported_count and errors
import_leaderboard_row(st, row, row_num) ==
    LET chk == check_required(row, leaderboard_required_fields, row_num, st.errors)
        name == strip(row["Username"])
        category_name == strip(row["Category"])
        score_text == strip(row["Score"])
        total_text == strip(row["Total Questions"])
        completed_at == strip(row_get(row, "Completed At"))
    IN  IF chk.raised \/ last_error_is_of(chk.errors, row_num)
        THEN [st EXCEPT !.errors = chk.errors]
        ELSE IF ~IsIntText(score_text)
        THEN [st EXCEPT !.errors =
                 Append(@, error(row_num, "Invalid number format", score_text))]
        ELSE IF ~IsIntText(total_text)
        THEN [st EXCEPT !.errors =
                 Append(@, error(row_num, "Invalid number format", total_text))]
        ELSE IF score_out_of_range(int(score_text), int(total_text))
        THEN [st EXCEPT !.errors =
                 Append(@, error(row_num, "Invalid score", score_text))]
        ELSE IF category_name \notin DOMAIN st.category_map
        THEN [st EXCEPT !.errors =
                 Append(@, error(row_num, "Unknown category", category_name))]
        ELSE IF completed_at = NoneText
        THEN [st EXCEPT !.errors = Append(@, error(row_num, "Exception", "Completed At"))]
        ELSE [st EXCEPT
                !.user_scores = insert_score(@, st.s_seq, name,
                                    st.category_map[category_name],
                                    int(score_text), int(total_text),
                                    IF completed_at # "" THEN TimeTexts[completed_at]
                                    ELSE now),
                !.s_seq = @ + 1,
                !.imported_count = @ + 1]

RECURSIVE import_leaderboard_rows(_, _, _)
import_leaderboard_rows(st, rows, row_num) ==
    IF rows = <<>> THEN st
    ELSE IF is_csv_error(Head(rows)) THEN [st EXCEPT !.parse_failed = TRUE]
    ELSE import_leaderboard_rows(import_leaderboard_row(st, Head(rows), row_num),
                                 Tail(rows), row_num + 1)

\* category_map of import_leaderboard_from_csv: the table's names, then
\* category_map['All Categories'] = QUIZ_CONFIG['all_categories_id']
leaderboard_category_map_of_table(cats) == name_to_id(cats)
leaderboard_category_map(cats) ==
    [n \in DOMAIN name_to_id(cats) \cup {"All Categories"} |->
        IF n = "All Categories" THEN all_categories_id ELSE name_to_id(cats)[n]]

\* import_leaderboard_from_csv on the score table: the final loop state
import_leaderboard_from_csv(cats, scores, seq0, csv_content) ==
    import_leaderboard_rows(
        [user_scores |-> scores, s_seq |-> seq0,
         category_map |-> leaderboard_category_map(cats),
         imported_count |-> 0, errors |-> <<>>, parse_failed |-> FALSE],
        csv_content, 2)

\* f"Failed to parse CSV: {str(e)}": a message of no row (row 0)
parse_error == error(0, "Failed to parse CSV", "Error")

\* the dict import_leaderboard_from_csv returns: the failure is the one entry
\* of 'errors' and there is no 'error' key
leaderboard_import_result(st) ==
    IF st.parse_failed
    THEN [op |-> "import_leaderboard", success |-> FALSE, imported_count |-> 0,
          errors |-> <<parse_error>>]
    ELSE [op |-> "import_leaderboard", success |-> TRUE,
          imported_count |-> st.imported_count, errors |-> st.errors]

lrow(name, category, points, total_questions, completed_at) ==
    [col \in {"Username", "Category", "Score", "Total Questions", "Completed At"} |->
        CASE col = "Username" -> name
          [] col = "Category" -> category
          [] col = "Score" -> points
          [] col = "Total Questions" -> total_questions
          [] col = "Completed At" -> completed_at]

(***************************************************************************)
(* Leaderboard handlers.                                                   *)
(***************************************************************************)
\* render_overall_leaderboard and render_category_leaderboard(cat_id) for the
\* categories of the table
GetLeaderboard ==
    /\ UNCHANGED imports
    /\ master_key # None
    /\ \E category_id \in {None} \cup {Some(c.id) : c \in quiz_categories} :
       \E limit \in {1, leaderboard_limit} :
       \E rows \in get_leaderboard(category_id, limit) :
          ret' = [op |-> "get_leaderboard", category_id |-> category_id,
                  limit |-> limit, rows |-> rows]
    /\ UNCHANGED <<storeVars, keyVars, sessionVars, now>>

\* render_quiz_tab: the page the session state selects
Phase ==
    IF username = "" THEN "NO_USERNAME"
    ELSE IF current_quiz = None THEN "CATEGORY_SELECT"
    ELSE IF ~quiz_completed THEN "IN_PROGRESS"
    ELSE "COMPLETED"

\* a quiz that is under way will write one more score row
quiz_in_progress == username # "" /\ current_quiz # None /\ ~quiz_completed

\* render_database_export_import_section, "Import Leaderboard" pressed: the
\* import, then on success the cache is cleared and the rerun constructs the
\* manager
ImportLeaderboard(files, max_scores) ==
    /\ UNCHANGED imports
    /\ master_key # None
    /\ \E csv_content \in files :
        LET st == import_leaderboard_from_csv(quiz_categories, user_scores, s_seq,
                                              csv_content)
        IN  /\ st.s_seq + (IF quiz_in_progress THEN 1 ELSE 0) <= max_scores
            /\ user_scores' = st.user_scores
            /\ s_seq' = st.s_seq
            /\ ret' = leaderboard_import_result(st) @@
                       [csv_content |-> csv_content, before |-> user_scores]
            /\ IF st.parse_failed
               THEN UNCHANGED <<quiz_categories, cat_seq, keyVars>>
               ELSE Construct(quiz_categories, cat_seq)
    /\ UNCHANGED <<questions, q_seq, sessionVars, now>>

\* rows of the leaderboard files an admin uploads
\* f"{percentage}%" of the rounded percentage, None for SQL NULL
percent_text(p) ==
    IF p = None THEN "None%"
    ELSE ToString(p[1] \div 10) \o "." \o ToString(p[1] % 10) \o "%"

\* export_leaderboard_to_csv: the data rows in every order that
\* ORDER BY us.completed_at DESC can give
export_leaderboard_orders ==
    Orderings(user_scores, [p \in user_scores \X user_scores |->
                               p[1].completed_at > p[2].completed_at])

\* category if category else 'All Categories', of the LEFT JOIN on the id
export_category_name(r) ==
    IF \E c \in quiz_categories : c.id = r.category_id
    THEN (CHOOSE c \in quiz_categories : c.id = r.category_id).name
    ELSE "All Categories"

\* the data rows written for the fetched rows f
export_leaderboard_rows(f) ==
    [i \in DOMAIN f |->
        lrow(f[i].username, export_category_name(f[i]), ToString(f[i].score),
             ToString(f[i].total_questions), time_text(f[i].completed_at)) @@
        [col \in {"Percentage"} |-> percent_text(percentage(f[i]))]]

export_leaderboard_to_csv ==
    {export_leaderboard_rows(f) : f \in export_leaderboard_orders}

\* save_score called on the manager with a result of results
SaveScore(results, max_scores) ==
    /\ UNCHANGED imports
    /\ master_key # None
    /\ s_seq < max_scores
    /\ \E r \in results :
        /\ user_scores' = save_score(user_scores, s_seq, r.username, r.category_id,
                                     r.score, r.total_questions)
        /\ ret' = [op |-> "save_score", result |-> r]
    /\ s_seq' = s_seq + 1
    /\ UNCHANGED <<quiz_categories, cat_seq, questions, q_seq, keyVars, sessionVars, now>>

\* render_database_export_import_section, "Export Leaderboard to CSV" pressed
ExportLeaderboard ==
    /\ UNCHANGED imports
    /\ master_key # None
    /\ \E csv \in export_leaderboard_to_csv :
          ret' = [op |-> "export_leaderboard", csv |-> csv]
    /\ UNCHANGED <<storeVars, keyVars, sessionVars, now>>

LeaderboardCsvRows ==
    { lrow("A", "Character Knowledge", "8", "10", "2024-01-01 00:00:02"),
      lrow("B", "Character Knowledge", "9", "10", "2024-01-01 00:00:01"),
      lrow("C", "Character Knowledge", "8", "10", "2024-01-01 00:00:01"),
      lrow("A", "Character Knowledge", "1", "35", "2024-01-01 00:00:01"),
      lrow("B", "Character Knowledge", "1", "34", "2024-01-01 00:00:02"),
      lrow("A", "All Categories", "0", "0", "") }

\* each file holds one data row
LeaderboardCsvFiles == {<<r>> : r \in LeaderboardCsvRows}

NextLeaderboard ==
    \/ ImportLeaderboard(LeaderboardCsvFiles, MaxScores)
    \/ GetLeaderboard
    \/ Tick

\* the score table under CSV import, read by the leaderboard queries
SpecLeaderboard == Init /\ [][NextLeaderboard]_vars

(***************************************************************************)
(* Quiz session handlers (render_quiz_tab and below).                      *)
(***************************************************************************)
\* (variant: the score is left as it is)
reset_quiz_state_keeps_score ==
    /\ current_quiz' = None
    /\ current_question' = 0
    /\ score' = score
    /\ answers' = <<>>
    /\ quiz_completed' = FALSE

\* reset_quiz_state: the answer_selected_i and feedback_i keys are not touched
reset_quiz_state ==
    /\ current_quiz' = None
    /\ current_question' = 0
    /\ score' = 0
    /\ answers' = <<>>
    /\ quiz_completed' = FALSE

\* render_username_input, the start button pressed with the text typed
EnterUsername(names) ==
    /\ UNCHANGED imports
    /\ master_key # None
    /\ username = ""
    /\ \E typed \in names :
        IF strip(typed) # ""
        THEN /\ username' = strip(typed)
             /\ ret' = [op |-> "enter_username", ok |-> TRUE]
        ELSE /\ username' = username
             /\ ret' = [op |-> "enter_username", ok |-> FALSE]
    /\ UNCHANGED <<storeVars, keyVars, now, current_quiz, current_question, score,
                   answers, quiz_completed, answer_selected, feedback>>

\* for cat_id, _, _ in categories: all_questions.extend(get_questions_by_category(cat_id))
RECURSIVE collect_questions(_)
collect_questions(categories) ==
    IF categories = <<>> THEN {<<>>}
    ELSE {qs \o rest :
            qs \in get_questions_by_category(Head(categories).id, default_question_limit),
            rest \in collect_questions(Tail(categories))}

\* random.shuffle: every order of the list
random_shuffle(list) ==
    {[i \in DOMAIN list |-> list[f[i]]] :
        f \in {g \in [DOMAIN list -> DOMAIN list] :
                 \A i, j \in DOMAIN list : i # j => g[i] # g[j]}}

\* if all_questions:
has_questions_always(all_questions) == TRUE
has_questions(all_questions) == all_questions # <<>>

\* render_all_categories_option, "Start Quiz with All Categories" pressed
StartQuiz(max_scores) ==
    /\ UNCHANGED imports
    /\ master_key # None
    /\ username # ""
    /\ current_quiz = None
    /\ s_seq < max_scores
    /\ \E all_questions \in collect_questions(get_categories(quiz_categories)) :
        IF has_questions(all_questions)
        THEN \E shuffled \in random_shuffle(all_questions) :
                \* reset_quiz_state(), then current_quiz is set
                /\ current_question' = 0
                /\ score' = 0
                /\ answers' = <<>>
                /\ quiz_completed' = FALSE
                /\ current_quiz' = [category_id |-> None,
                                    category_name |-> "All Categories",
                                    questions |-> shuffled]
                /\ ret' = [op |-> "start_quiz", ok |-> TRUE]
        ELSE /\ ret' = [op |-> "start_quiz", ok |-> FALSE]
             /\ UNCHANGED <<current_quiz, current_question, score, answers,
                            quiz_completed>>
    /\ UNCHANGED <<storeVars, keyVars, now, username, answer_selected, feedback>>

\* the current question is on screen
question_shown ==
    /\ master_key # None
    /\ quiz_in_progress
    /\ current_question < Len(current_quiz.questions)

\* if is_correct: st.session_state.score += 1
score_after(points, is_correct) == IF is_correct THEN points + 1 ELSE points

\* render_answer_options, answer button i pressed: process_answer_selection,
\* then answer_selected_{idx} = True
SelectAnswer(choices) ==
    /\ UNCHANGED imports
    /\ question_shown
    /\ current_question \notin answer_selected
    /\ \E answer_choice \in choices :
        LET question == current_quiz.questions[current_question + 1]
            correct_answer_idx == question.correct_answer - 1
            is_correct == answer_choice = correct_answer_idx
        IN  /\ score' = score_after(score, is_correct)
            /\ feedback' = [i \in DOMAIN feedback \cup {current_question} |->
                              IF i = current_question
                              THEN [is_correct |-> is_correct,
                                    explanation |-> question.explanation,
                                    selected_answer |-> answer_choice]
                              ELSE feedback[i]]
            /\ answers' = Append(answers, [question |-> question.question,
                                           selected |-> answer_choice,
                                           correct |-> question.correct_answer,
                                           is_correct |-> is_correct])
            /\ answer_selected' = answer_selected \cup {current_question}
            /\ ret' = [op |-> "select_answer", is_correct |-> is_correct]
    /\ UNCHANGED <<storeVars, keyVars, now, username, current_quiz, current_question,
                   quiz_completed>>

\* render_answer_options, "Next Question" pressed: move_to_next_question
NextQuestion ==
    /\ UNCHANGED imports
    /\ question_shown
    /\ current_question \in answer_selected
    /\ current_question < Len(current_quiz.questions) - 1
    /\ current_question' = current_question + 1
    /\ ret' = [op |-> "next_question"]
    /\ UNCHANGED <<storeVars, keyVars, now, username, current_quiz, score, answers,
                   quiz_completed, answer_selected, feedback>>

\* what the store engine does with the INSERT of save_score: it commits, or
\* raises sqlite3.Error (database locked, disk error), which save_score lets through
store_outcomes == {"committed", "raised"}

\* render_answer_options, "Finish Quiz" pressed: complete_quiz sets
\* quiz_completed, then calls save_score
FinishQuiz(outcomes) ==
    /\ UNCHANGED imports
    /\ question_shown
    /\ current_question \in answer_selected
    /\ ~(current_question < Len(current_quiz.questions) - 1)
    /\ quiz_completed' = TRUE
    /\ \E outcome \in outcomes :
        IF outcome = "committed"
        THEN /\ user_scores' = save_score(user_scores, s_seq, username,
                                          current_quiz.category_id, score,
                                          Len(current_quiz.questions))
             /\ s_seq' = s_seq + 1
             /\ ret' = [op |-> "complete_quiz", score |-> score,
                        total_questions |-> Len(current_quiz.questions)]
        ELSE /\ UNCHANGED <<user_scores, s_seq>>
             /\ ret' = [op |-> "complete_quiz_raised"]
    /\ UNCHANGED <<quiz_categories, cat_seq, questions, q_seq, keyVars, now, username,
                   current_quiz, current_question, score, answers, answer_selected,
                   feedback>>

\* the results page is on screen
completion_shown ==
    master_key # None /\ username # "" /\ current_quiz # None /\ quiz_completed

\* render_quiz_completion, "Take Another Quiz" pressed
TakeAnotherQuiz ==
    /\ UNCHANGED imports
    /\ completion_shown
    /\ reset_quiz_state
    /\ ret' = [op |-> "take_another_quiz"]
    /\ UNCHANGED <<storeVars, keyVars, now, username, answer_selected, feedback>>

\* render_quiz_completion, "Back to Categories" pressed
BackToCategories ==
    /\ UNCHANGED imports
    /\ completion_shown
    /\ reset_quiz_state
    /\ ret' = [op |-> "back_to_categories"]
    /\ UNCHANGED <<storeVars, keyVars, now, username, answer_selected, feedback>>

\* what a player types as a name
UsernameTexts == {"", " Ann"}

\* the answer buttons pressed: ans_0 and ans_1 of ans_0 .. ans_3
AnswerChoices == {0, 1}

\* the question files of an admin during play, one data row each
QuizQuestionFiles ==
    { <<qrow("Character Knowledge", "Q1", "a", "b", "c", "d", "A", "hint")>>,
      <<qrow("New Cat", " Q1", " a", "b", "c", "d", " a", "")>> }

\* the leaderboard files of an admin during play
QuizLeaderboardFiles ==
    { <<lrow("A", "All Categories", "1", "2", "")>>,
      <<lrow("A", "Character Knowledge", "3", "2", "")>>,
      <<lrow("A", "Character Knowledge", "-1", "2", "")>>,
      <<lrow("A", "Character Knowledge", "3", "2", ""),
        lrow("A", "All Categories", "1", "2", "")>> }

NextQuiz ==
    \/ EnterUsername(UsernameTexts)
    \/ StartQuiz(MaxPlayScores)
    \/ SelectAnswer(AnswerChoices)
    \/ NextQuestion
    \/ FinishQuiz({"committed"})
    \/ TakeAnotherQuiz
    \/ BackToCategories
    \/ ImportQuestions(QuizQuestionFiles)
    \/ ImportLeaderboard(QuizLeaderboardFiles, MaxPlayScores)
    \/ Restart

\* a player's session next to an admin's imports, the store committing every
\* INSERT of save_score
SpecQuiz == Init /\ [][NextQuiz]_vars

NextQuizStoreError ==
    \/ EnterUsername(UsernameTexts)
    \/ StartQuiz(MaxPlayScores)
    \/ SelectAnswer(AnswerChoices)
    \/ NextQuestion
    \/ FinishQuiz(store_outcomes)
    \/ TakeAnotherQuiz
    \/ BackToCategories
    \/ ImportQuestions(QuizQuestionFiles)
    \/ Restart

\* a player's session over a store whose INSERT may raise
SpecQuizStoreError == Init /\ [][NextQuizStoreError]_vars

(***************************************************************************)
(* Properties of the question store.                                       *)
(***************************************************************************)
without_id(d) == [k \in DOMAIN d \ {"id"} |-> d[k]]

Min(a, b) == IF a <= b THEN a ELSE b
Max(a, b) == IF a >= b THEN a ELSE b

\* a question row decrypts under the manager's key
Decryptable(q) == q.encrypted_data.key = master_key

\* the plaintext a question row carries
Plain(q) == json_loads(q.encrypted_data.payload)

\* a row of a questions file that passes every check of the import loop
RowFieldsPresent(row) ==
    \A f \in Range(question_required_fields) :
        f \in DOMAIN row /\ row[f] # NoneText /\ strip(row[f]) # ""

AnswerValid(row) == upper(strip(row["Correct Answer"])) \in {"A", "B", "C", "D"}

\* C6: a question-import row whose Correct Answer, trimmed and upper-cased, is
\* not A, B, C or D (such as "E") gets an error message naming its row number,
\* inserts no question and is not counted: the questions the call adds and its
\* imported_count both equal the number of rows that pass every check.
C6_InvalidAnswerRejected ==
    (ret.op = "import_questions" /\ ret.success) =>
        LET csv == ret.csv_content
            bad == {i \in DOMAIN csv : RowFieldsPresent(csv[i]) /\ ~AnswerValid(csv[i])}
            good == {i \in DOMAIN csv : RowFieldsPresent(csv[i]) /\ AnswerValid(csv[i])
                                         /\ row_get(csv[i], "Explanation") # NoneText}
            added == questions \ ret.before.questions
        IN  /\ \A i \in bad : \E k \in DOMAIN ret.errors :
                  /\ ret.errors[k].row = i + 1
                  /\ ret.errors[k].kind = "Invalid correct answer"
                  /\ ret.errors[k].detail = upper(strip(csv[i]["Correct Answer"]))
            /\ ret.imported_count = Cardinality(good)
            /\ Cardinality(added) = Cardinality(good)
            /\ \A q \in added : \E i \in good :
                  /\ Plain(q).question = strip(csv[i]["Question"])
                  /\ correct_letter(Plain(q).correct_answer) = upper(strip(csv[i]["Correct Answer"]))

\* an import has run over a file holding a row with Correct Answer "E"
C6_Witness ==
    /\ ret.op = "import_questions"
    /\ ret.success
    /\ \E i \in DOMAIN ret.csv_content :
          /\ ret.csv_content[i]["Correct Answer"] = "E"
          /\ \E k \in DOMAIN ret.errors : ret.errors[k].row = i + 1
    /\ ret.imported_count = 1

\* the questions of export-clear-import: the exported rows imported into the
\* store with its questions deleted
RoundTripQuestions ==
    LET st == import_questions_from_csv(quiz_categories, cat_seq, {}, q_seq,
                                        export_questions_to_csv)
    IN  {Plain(q) : q \in {x \in st.questions : Decryptable(x)}}

\* C7: exporting the questions, deleting them all and importing the exported
\* text gives back the same questions (category, text, options in order,
\* correct answer, explanation), whatever was stored through the add form, the
\* edit form or an import.
C7_ExportImportRoundTrip ==
    master_key # None =>
        RoundTripQuestions = {without_id(q) : q \in Range(get_all_questions(None))}

\* C8 as claimed: get_questions_by_category returns min(limit, n) questions for
\* a category holding n decryptable questions, with distinct ids, all of the
\* category.
C8_SampleSizeIsMinLimitN ==
    ret.op = "get_questions_by_category" =>
        LET n == Cardinality({q \in questions :
                     q.category_id = ret.category_id /\ Decryptable(q)})
        IN  /\ Len(ret.questions) = Min(ret.limit, n)
            /\ \A i, j \in DOMAIN ret.questions :
                  i # j => ret.questions[i].id # ret.questions[j].id
            /\ \A i \in DOMAIN ret.questions :
                  ret.questions[i].category_id = ret.category_id

\* C8 amended: the LIMIT is applied before decryption, so with n decryptable
\* and m undecryptable rows in the category the call returns at most
\* min(limit, n) and at least min(limit, n + m) - m questions (exactly
\* min(limit, n) when m = 0), with distinct ids, all rows of the category.
C8_SampleSizeBounds ==
    ret.op = "get_questions_by_category" =>
        LET rows == {q \in questions : q.category_id = ret.category_id}
            n == Cardinality({q \in rows : Decryptable(q)})
            m == Cardinality(rows) - n
            len == Len(ret.questions)
        IN  /\ len <= Min(ret.limit, n)
            /\ len >= Min(ret.limit, n + m) - m
            /\ m = 0 => len = Min(ret.limit, n)
            /\ \A i, j \in DOMAIN ret.questions :
                  i # j => ret.questions[i].id # ret.questions[j].id
            /\ \A i \in DOMAIN ret.questions :
                  /\ ret.questions[i].category_id = ret.category_id
                  /\ \E q \in rows : q.id = ret.questions[i].id

\* a category with two questions, all decryptable, read with the default limit
C8_Witness ==
    /\ ret.op = "get_questions_by_category"
    /\ ret.limit = default_question_limit
    /\ Len(ret.questions) = 2
    /\ \A q \in questions : q.category_id = ret.category_id => Decryptable(q)

\* question dicts as add_question builds them
ValidRecords ==
    {question_data(c, q, o, a, e) :
        c \in 1..2, q \in {"Q1", " Q1"},
        o \in {<<"a", "b", "c", "d">>, <<" ", "b", "c", "d">>},
        a \in 1..4, e \in {"", "hint"}}

C10_BulkReadsSkipUndecryptable ==
    /\ ret.op = "get_all_questions" =>
          LET sel == IF ret.category_id = None THEN questions
                     ELSE {q \in questions : q.category_id = ret.category_id[1]}
              good == {q \in sel : Decryptable(q)}
              out == ret.questions
          IN  /\ Len(out) = Cardinality(good)
              /\ \A i, j \in DOMAIN out : i < j => out[i].id < out[j].id
              /\ \A i \in DOMAIN out : \E q \in good :
                    q.id = out[i].id /\ without_id(out[i]) = Plain(q)
    /\ ret.op = "get_questions_by_category" =>
          \A i \in DOMAIN ret.questions : \E q \in questions :
              /\ q.id = ret.questions[i].id
              /\ q.category_id = ret.category_id
              /\ Decryptable(q)
              /\ without_id(ret.questions[i]) = Plain(q)

\* get_all_questions has returned the later of two rows, the earlier one being
\* encrypted under a key that was since replaced
C10_Witness ==
    /\ ret.op = "get_all_questions"
    /\ ret.category_id = None
    /\ Len(ret.questions) = 1
    /\ \E q \in questions : ~Decryptable(q) /\ q.id < ret.questions[1].id

(***************************************************************************)
(* Properties of the leaderboard.                                          *)
(***************************************************************************)
CategoryRead == ret.op = "get_leaderboard" /\ ret.category_id # None
OverallRead == ret.op = "get_leaderboard" /\ ret.category_id = None

RatioDefined(r) == r.total_questions >= 1

\* score1/total1 >= score2/total2, for positive totals
RatioAtLeast(r1, r2) ==
    r1.score * r2.total_questions >= r2.score * r1.total_questions

SameRatio(r1, r2) ==
    \/ RatioDefined(r1) /\ RatioDefined(r2) /\ RatioAtLeast(r1, r2) /\ RatioAtLeast(r2, r1)
    \/ r1.score = r2.score /\ r1.total_questions = r2.total_questions

\* C2: a category leaderboard is ranked by the exact ratio score/total,
\* descending: of two returned rows whose ratios are defined, the one that
\* comes first has the ratio that is at least the other's.
C2_RankedByExactRatio ==
    CategoryRead =>
        \A i, j \in DOMAIN ret.rows :
            (i < j /\ RatioDefined(ret.rows[i]) /\ RatioDefined(ret.rows[j]))
                => RatioAtLeast(ret.rows[i], ret.rows[j])

ExampleScores ==
    {<<"A", 8, 10, 2>>, <<"B", 9, 10, 1>>, <<"C", 8, 10, 1>>}

\* C3: in a category leaderboard, rows with equal score/total come in the
\* order of their completion, earliest first; when the category holds exactly
\* (A,8,10), (B,9,10) and (C,8,10, completed before A), the order is B, C, A.
C3_TiesByEarliestCompletion ==
    CategoryRead =>
        /\ \A i, j \in DOMAIN ret.rows :
              (i < j /\ SameRatio(ret.rows[i], ret.rows[j]))
                  => ret.rows[i].completed_at <= ret.rows[j].completed_at
        /\ ( /\ {<<r.username, r.score, r.total_questions, r.completed_at>> :
                   r \in {x \in user_scores : x.category_id = ret.category_id[1]}}
                = ExampleScores
             /\ Cardinality({x \in user_scores : x.category_id = ret.category_id[1]}) = 3
             /\ ret.limit >= 3 )
           => [i \in DOMAIN ret.rows |-> ret.rows[i].username] = <<"B", "C", "A">>

\* the example of C3 has been read: B, then C (earlier), then A (later)
C3_Witness ==
    /\ CategoryRead
    /\ [i \in DOMAIN ret.rows |->
          <<ret.rows[i].username, ret.rows[i].score, ret.rows[i].total_questions,
            ret.rows[i].completed_at>>]
       = << <<"B", 9, 10, 1>>, <<"C", 8, 10, 1>>, <<"A", 8, 10, 2>> >>

\* sum of score/total*100 over S as a fraction <<n, d>> in lowest terms, every
\* total being positive
RECURSIVE SumOfPercentages(_)
SumOfPercentages(S) ==
    IF S = {} THEN <<0, 1>>
    ELSE LET r == CHOOSE x \in S : TRUE
             rest == SumOfPercentages(S \ {r})
             n == rest[1] * r.total_questions + 100 * r.score * rest[2]
             d == rest[2] * r.total_questions
         IN  <<n \div gcd(n, d), d \div gcd(n, d)>>

\* v is the arithmetic mean of score/total*100 over the records S
IsMeanOf(v, S) ==
    /\ \A r \in S : RatioDefined(r)
    /\ v # None
    /\ v.num * (SumOfPercentages(S)[2] * Cardinality(S)) = SumOfPercentages(S)[1] * v.den

\* C4: the all-categories leaderboard has one row per distinct username, up to
\* the limit, and each row's value is the arithmetic mean of score/total*100
\* over all of that user's records in every category.
C4_OneRowPerUserWithMean ==
    OverallRead =>
        /\ \A i, j \in DOMAIN ret.rows :
              i # j => ret.rows[i].username # ret.rows[j].username
        /\ Len(ret.rows) = Min(ret.limit, Cardinality({r.username : r \in user_scores}))
        /\ \A i \in DOMAIN ret.rows :
              IsMeanOf(ret.rows[i].avg_percentage,
                       {r \in user_scores : r.username = ret.rows[i].username})
(***************************************************************************)
(* Properties of score records and category ids.                           *)
(***************************************************************************)
\* the Score and Total Questions of a CSV row are numbers with score < 0 or
\* score > total
RowOutOfRange(row) ==
    /\ IsIntText(strip(row["Score"]))
    /\ IsIntText(strip(row["Total Questions"]))
    /\ \/ int(strip(row["Score"])) < 0
       \/ int(strip(row["Score"])) > int(strip(row["Total Questions"]))

\* C1: every stored score record has 0 <= score <= total_questions, whether a
\* finished quiz or a leaderboard import wrote it; an import row with score < 0
\* or score > total_questions gets a row error and inserts no record.
C1_ScoreWithinTotal ==
    /\ \A r \in user_scores : 0 <= r.score /\ r.score <= r.total_questions
    /\ (ret.op = "import_leaderboard" /\ ret.success) =>
          /\ \A k \in DOMAIN ret.csv_content :
                RowOutOfRange(ret.csv_content[k]) =>
                    \E e \in Range(ret.errors) : e.row = k + 1 /\ e.kind = "Invalid score"
          /\ Cardinality(user_scores \ ret.before)
               <= Cardinality({k \in DOMAIN ret.csv_content :
                                  ~RowOutOfRange(ret.csv_content[k])})

\* a finished quiz with a correct answer is on record, and an import has just
\* rejected an out-of-range row
C1_Witness ==
    /\ \E r \in user_scores : r.username = "Ann" /\ r.score >= 1
    /\ ret.op = "import_leaderboard"
    /\ \E k \in DOMAIN ret.csv_content : RowOutOfRange(ret.csv_content[k])
    /\ \E e \in Range(ret.errors) : e.kind = "Invalid score"

\* C5: a score saved with no category carries the sentinel category id 0, and
\* no category row ever has id 0.
C5_SentinelIsNoCategory ==
    /\ \A c \in quiz_categories : c.id # all_categories_id
    /\ ret.op = "complete_quiz" =>
          \E r \in user_scores :
              /\ r.id = s_seq
              /\ r.username = username
              /\ r.category_id = 0
              /\ r.category_id \notin {c.id : c \in quiz_categories}

\* a quiz has just been saved while an imported category exists
C5_Witness ==
    /\ ret.op = "complete_quiz"
    /\ \E c \in quiz_categories : c.name = "New Cat"
    /\ \E r \in user_scores : r.id = s_seq /\ r.category_id = 0
(***************************************************************************)
(* Properties of the quiz session.  A restart of the process ends every    *)
(* session and begins new ones; the properties speak of the steps of one   *)
(* session.                                                                *)
(***************************************************************************)
SessionStep == ret'.op # "restart"

\* C11: a session moves only NO_USERNAME -> CATEGORY_SELECT -> IN_PROGRESS ->
\* COMPLETED -> CATEGORY_SELECT: IN_PROGRESS is followed by IN_PROGRESS or
\* COMPLETED only, CATEGORY_SELECT is left only by starting a quiz with a
\* non-empty question list, NO_USERNAME is left only by entering a non-blank
\* username and is never entered again.
C11_SessionPhases ==
    [][SessionStep =>
        /\ Phase = "IN_PROGRESS" => Phase' \in {"IN_PROGRESS", "COMPLETED"}
        /\ Phase = "COMPLETED" => Phase' \in {"COMPLETED", "CATEGORY_SELECT"}
        /\ (Phase = "CATEGORY_SELECT" /\ Phase' # "CATEGORY_SELECT") =>
              /\ Phase' = "IN_PROGRESS"
              /\ ret'.op = "start_quiz"
              /\ Len(current_quiz'.questions) >= 1
        /\ (Phase = "NO_USERNAME" /\ Phase' # "NO_USERNAME") =>
              /\ Phase' = "CATEGORY_SELECT"
              /\ ret'.op = "enter_username"
              /\ strip(username') # ""
        /\ Phase' = "NO_USERNAME" => Phase = "NO_USERNAME"]_vars

\* a session has gone once round: a quiz was finished and left
C11_Witness ==
    /\ Phase = "CATEGORY_SELECT"
    /\ ret.op \in {"take_another_quiz", "back_to_categories"}
    /\ \E r \in user_scores : r.username = username

\* the record complete_quiz is to store for the quiz on screen
QuizRecord ==
    [id |-> s_seq + 1, username |-> username, category_id |-> all_categories_id,
     score |-> score, total_questions |-> Len(current_quiz.questions),
     completed_at |-> now]

SessionOps ==
    {"enter_username", "start_quiz", "select_answer", "next_question",
     "take_another_quiz", "back_to_categories"}

\* C12: a quiz becomes COMPLETED only by the Finish step, which stores exactly
\* one score record for it (session username, the all-categories sentinel, the
\* session score, the number of questions of the quiz); no other step of the
\* session writes a score record, and a COMPLETED session has its record stored.
C12_CompletedQuizHasItsRecord ==
    [][/\ (Phase = "IN_PROGRESS" /\ Phase' = "COMPLETED") =>
            /\ current_question = Len(current_quiz.questions) - 1
            /\ user_scores' = user_scores \cup {QuizRecord}
            /\ QuizRecord \notin user_scores
       /\ (SessionStep /\ Phase # "IN_PROGRESS" /\ Phase' = "COMPLETED") =>
            Phase = "COMPLETED"
       /\ ret'.op \in SessionOps => user_scores' = user_scores]_vars

\* C13: from COMPLETED, "Take Another Quiz" and "Back to Categories" both move
\* the session to CATEGORY_SELECT with no current quiz, question index 0,
\* score 0, no recorded answers and quiz_completed false; the username stays.
C13_CompletionActionsReset ==
    [][ret'.op \in {"take_another_quiz", "back_to_categories"} =>
        /\ Phase = "COMPLETED"
        /\ Phase' = "CATEGORY_SELECT"
        /\ current_quiz' = None
        /\ current_question' = 0
        /\ score' = 0
        /\ answers' = <<>>
        /\ quiz_completed' = FALSE
        /\ username' = username]_vars

\* a quiz with a correct answer was finished and then left by a completion action
C13_Witness ==
    /\ ret.op \in {"take_another_quiz", "back_to_categories"}
    /\ \E r \in user_scores : r.username = username /\ r.score >= 1
    /\ feedback # <<>>
NextReplay ==
    \/ EnterUsername(UsernameTexts)
    \/ StartQuiz(MaxScores)
    \/ SelectAnswer(AnswerChoices)
    \/ NextQuestion
    \/ FinishQuiz({"committed"})
    \/ TakeAnotherQuiz
    \/ BackToCategories
    \/ ImportQuestions(QuizQuestionFiles)

\* one session playing quiz after quiz
SpecReplay == Init /\ [][NextReplay]_vars

\* question files with rows that fail a check before rows that pass, and files
\* the reader fails on after a row that passes
ImportQuestionFiles ==
    { <<qrow("Character Knowledge", "", "a", "b", "c", "d", "A", ""),
        qrow("Character Knowledge", "Q1", "a", "b", "c", "d", "A", "")>>,
      <<qrow("New Cat", "Q1", "a", "b", "c", "d", "E", ""),
        qrow("World & Setting", " Q1", "a", "b", "c", "d", "b", "hint")>>,
      <<qrow("Character Knowledge", "Q1", "a", "b", "c", "d", "D", ""), csv_error>>,
      <<qrow_no_explanation("Quotes & Dialogues", "Q1", "a", "b", "c", "d", "A")>>,
      <<qrow("Quotes & Dialogues", "Q1", "a", "b", "c", "d", "B", NoneText)>>,
      <<csv_error>> }

\* leaderboard files of the same kinds
ImportLeaderboardFiles ==
    { <<lrow("A", "Character Knowledge", "3", "2", ""),
        lrow("A", "All Categories", "1", "2", "")>>,
      <<lrow("B", "No Such Category", "1", "2", ""),
        lrow("B", "World & Setting", "x", "2", ""),
        lrow(" Ann", "World & Setting", " 1 ", "2", "2024-01-01 00:00:02")>>,
      <<lrow("A", "Character Knowledge", "2", "2", ""), csv_error>>,
      <<csv_error>> }

NextImports ==
    \/ ImportQuestions(ImportQuestionFiles)
    \/ ImportLeaderboard(ImportLeaderboardFiles, MaxScores)

\* the two CSV imports over files with bad rows and unreadable rows
SpecImports == Init /\ [][NextImports]_vars

\* the files of an admin at work
StoreQuestionFiles ==
    { <<qrow("New Cat", "Q1", "a", "b", "c", "d", "E", ""),
        qrow("New Cat", "Q1", "a", "b", "c", "d", "A", "")>> }
StoreLeaderboardFiles == { <<lrow("Ann", "All Categories", "1", "2", "")>> }
StoreResults ==
    { [username |-> "Ann", category_id |-> None, score |-> 2, total_questions |-> 2] }

NextStore ==
    \/ AddQuestion(StoreForms)
    \/ UpdateQuestion(StoreForms)
    \/ DeleteQuestion
    \/ SaveScore(StoreResults, MaxScores)
    \/ ImportQuestions(StoreQuestionFiles)
    \/ ImportLeaderboard(StoreLeaderboardFiles, MaxScores)
    \/ ExportQuestions
    \/ ExportLeaderboard
    \/ Restart

\* every writer of the store: the admin's forms, imports and exports, the
\* saving of results and restarts
SpecStore == Init /\ [][NextStore]_vars

(***************************************************************************)
(* Interleaved imports and the category table.                             *)
(***************************************************************************)
\* the category a row of the loop names
RowCategory == strip(ret'.row["Category"])

\* run p passes its row while its category_map lacks the row's category and the
\* table, by another run's insert, holds it
RacingInsert ==
    /\ ret'.op = "import_questions_row"
    /\ imports[ret'.importer] # None
    /\ RowCategory \notin DOMAIN imports[ret'.importer][1].category_map
    /\ \E c \in quiz_categories : c.name = RowCategory

\* C14 as stated: two concurrent question imports that each add the same unseen
\* category name both create it, so the later insert adds a second row of the name
C14_BothRacersCreate ==
    [][RacingInsert => \E c \in quiz_categories' \ quiz_categories : c.name = RowCategory]_vars

\* C14 amended: of two concurrent question imports that each add the same unseen
\* category name only the first creates it; the later insert is refused by the
\* table's uniqueness constraint, the refusal is recorded as that row's error,
\* the row's question is not imported and one row of the name exists
C14_SecondCreatorIsRefused ==
    [][RacingInsert =>
          /\ quiz_categories' = quiz_categories
          /\ questions' = questions
          /\ imports'[ret'.importer][1].imported_count =
                 imports[ret'.importer][1].imported_count
          /\ imports'[ret'.importer][1].errors =
                 Append(imports[ret'.importer][1].errors,
                        error(ret'.row_num, "Exception", "IntegrityError"))
          /\ Cardinality({c \in quiz_categories' : c.name = RowCategory}) = 1]_vars

\* a run has just been refused the insert of "New Cat", which another run created
C14_Witness ==
    /\ ret.op = "import_questions_row"
    /\ imports[ret.importer] # None
    /\ LET e == imports[ret.importer][1].errors
       IN  e # <<>> /\ e[Len(e)] = error(ret.row_num, "Exception", "IntegrityError")
    /\ \E c \in quiz_categories : c.name = "New Cat"
    /\ \E q \in questions : q.category_id \in {c.id : c \in quiz_categories \ 
                                                    insert_categories({}, 0, default_categories).cats}

\* C15: in every reachable state, under interleaved imports and repeated
\* initialisation included, no two category rows have the same name
C15_CategoryNamesUnique ==
    \A c1, c2 \in quiz_categories : c1.name = c2.name => c1 = c2

\* an import that lost the race for "New Cat" has returned and the manager has
\* been constructed again over the table holding the name
C15_Witness ==
    /\ ret.op = "import_questions_end"
    /\ ret.success
    /\ \E i \in DOMAIN ret.errors : ret.errors[i].detail = "IntegrityError"
    /\ \E c \in quiz_categories : c.name = "New Cat" /\ c.id > Len(default_categories)

(***************************************************************************)
(* Categories and score records are append-only.                           *)
(***************************************************************************)
\* C16: no operation deletes or modifies an existing category row or an
\* existing score record; both tables only grow
C16_CategoriesAndScoresOnlyAdded ==
    [][quiz_categories \subseteq quiz_categories' /\ user_scores \subseteq user_scores']_vars

\* a result of a user with an earlier record has been saved, after an import
\* created a category
C16_Witness ==
    /\ ret.op = "save_score"
    /\ Cardinality({r \in user_scores : r.username = ret.result.username}) >= 2
    /\ \E c \in quiz_categories : c.name = "New Cat"

(***************************************************************************)
(* The master key across runs.                                             *)
(***************************************************************************)
\* C17: a run that finds no key file and QUIZ_PASSWORD unset or empty halts
\* before serving: it writes no key file and no salt file, leaves the database
\* uninitialised and produces no manager
C17_NoPassphraseHaltsFirstRun ==
    [][(ret'.op = "restart" /\ key_file = None /\ quiz_password \in {NoneText, ""}) =>
          /\ key_file' = None
          /\ salt_file' = salt_file
          /\ quiz_categories' = quiz_categories
          /\ cat_seq' = cat_seq
          /\ master_key' = None]_vars

\* the first run has halted on an empty QUIZ_PASSWORD: nothing exists
C17_Witness ==
    /\ ret.op = "restart"
    /\ quiz_password = ""
    /\ key_file = None /\ salt_file = None /\ master_key = None
    /\ quiz_categories = {}

\* C18: a run that finds the key file uses its content as the master key
\* whatever QUIZ_PASSWORD holds, and no step but the removal of the key file
\* changes the key file or salt file once written
C18_KeyFileIsTheKey ==
    [][(key_file # None /\ ret'.op # "remove_key_file") =>
          /\ key_file' = key_file
          /\ salt_file' = salt_file
          /\ ret'.op = "restart" => master_key' = key_file]_vars

\* a run under another passphrase than the one the key was derived from, and
\* a question written under the key is read back
C18_Witness ==
    /\ ret.op = "get_all_questions"
    /\ ret.questions # <<>>
    /\ key_file # None
    /\ master_key = key_file
    /\ quiz_password # key_file.password

(***************************************************************************)
(* CSV imports over bad rows and unreadable files.                         *)
(***************************************************************************)
\* a questions row that passes every check of the loop
QuestionRowValid(row) ==
    RowFieldsPresent(row) /\ AnswerValid(row) /\ row_get(row, "Explanation") # NoneText

\* a leaderboard row that passes every check of the loop
LeaderboardRowValid(row) ==
    /\ \A f \in Range(leaderboard_required_fields) :
          f \in DOMAIN row /\ row[f] # NoneText /\ strip(row[f]) # ""
    /\ IsIntText(strip(row["Score"])) /\ IsIntText(strip(row["Total Questions"]))
    /\ ~RowOutOfRange(row)
    /\ strip(row["Category"]) \in {c.name : c \in quiz_categories} \cup {"All Categories"}
    /\ row_get(row, "Completed At") # NoneText

\* the reader gives every row of the file
Readable(csv) == \A i \in DOMAIN csv : ~is_csv_error(csv[i])

\* the rows of the imported file that pass every check
ValidRows ==
    {i \in DOMAIN ret.csv_content :
        IF ret.op = "import_questions" THEN QuestionRowValid(ret.csv_content[i])
        ELSE LeaderboardRowValid(ret.csv_content[i])}

\* the question a row of the file asks for is stored among qs
QuestionOfRowIn(row, qs) ==
    \E q \in qs :
        /\ Plain(q).question = strip(row["Question"])
        /\ correct_letter(Plain(q).correct_answer) = upper(strip(row["Correct Answer"]))
        /\ \E c \in quiz_categories : c.id = q.category_id /\ c.name = strip(row["Category"])

\* the record a row of the file asks for is stored among rs
ScoreOfRowIn(row, rs) ==
    \E r \in rs :
        /\ r.username = strip(row["Username"])
        /\ r.score = int(strip(row["Score"]))
        /\ r.total_questions = int(strip(row["Total Questions"]))

\* C19: either import, over a file the reader can read, returns success=True;
\* each row that fails a check gets a message carrying its row number and every
\* row that passes, after a failing one too, is inserted; imported_count is the
\* number of inserted rows and every message is of a failing row
C19_ImportsContinuePastBadRows ==
    (ret.op \in {"import_questions", "import_leaderboard"} /\ Readable(ret.csv_content)) =>
        LET csv == ret.csv_content
            added == IF ret.op = "import_questions" THEN questions \ ret.before.questions
                     ELSE user_scores \ ret.before
        IN  /\ ret.success
            /\ ret.imported_count = Cardinality(ValidRows)
            /\ Cardinality(added) = Cardinality(ValidRows)
            /\ \A i \in ValidRows :
                  IF ret.op = "import_questions" THEN QuestionOfRowIn(csv[i], added)
                  ELSE ScoreOfRowIn(csv[i], added)
            /\ \A i \in DOMAIN csv \ ValidRows :
                  \E k \in DOMAIN ret.errors : ret.errors[k].row = i + 1
            /\ \A k \in DOMAIN ret.errors : ret.errors[k].row - 1 \in DOMAIN csv \ ValidRows

\* a leaderboard import has inserted the row after two failing rows, questions
\* imported after a failing row being in the store
C19_Witness ==
    /\ ret.op = "import_leaderboard"
    /\ Len(ret.csv_content) = 3
    /\ ValidRows = {3}
    /\ ret.imported_count = 1
    /\ Len(ret.errors) = 2
    /\ \E q \in questions : Plain(q).question = "Q1" /\ Plain(q).correct_answer = 2

\* C20: when the reader fails at some row of the file the import is aborted:
\* the result is success=False with imported_count 0 and one top-level error,
\* and no row of the file, those read before the failure included, is left
\* inserted in the store
C20_UnreadableFileInsertsNothing ==
    (ret.op \in {"import_questions", "import_leaderboard"} /\ ~Readable(ret.csv_content)) =>
        /\ ~ret.success
        /\ ret.imported_count = 0
        /\ IF ret.op = "import_questions"
           THEN ret.errors = <<>> /\ ret.error = "Failed to parse CSV"
           ELSE ret.errors = <<parse_error>>
        /\ IF ret.op = "import_questions"
           THEN questions = ret.before.questions
           ELSE user_scores = ret.before

(***************************************************************************)
(* Re-initialisation.                                                      *)
(***************************************************************************)
\* C21: init_database run again changes nothing: over a category table that is
\* not empty it returns the table as it is, and a restart leaves categories,
\* questions and score records exactly as they were
C21_InitDatabaseIdempotent ==
    [][quiz_categories # {} =>
          /\ init_database(quiz_categories, cat_seq) =
                 [cats |-> quiz_categories, seq |-> cat_seq]
          /\ ret'.op = "restart" =>
                 /\ quiz_categories' = quiz_categories /\ cat_seq' = cat_seq
                 /\ questions' = questions /\ q_seq' = q_seq
                 /\ user_scores' = user_scores /\ s_seq' = s_seq]_vars

\* a restart over a store holding an imported category, a question and a score
C21_Witness ==
    /\ ret.op = "restart"
    /\ \E c \in quiz_categories : c.name = "New Cat"
    /\ questions # {}
    /\ user_scores # {}

(***************************************************************************)
(* Categories of imported score records.                                   *)
(***************************************************************************)
\* the Category of a leaderboard row names no category row and is not
\* "All Categories"
CategoryUnknown(row) ==
    strip(row["Category"]) \notin {c.name : c \in quiz_categories} \cup {"All Categories"}

\* a leaderboard row that passes the checks made before the category lookup
PassesScoreChecks(row) ==
    /\ \A f \in Range(leaderboard_required_fields) :
          f \in DOMAIN row /\ row[f] # NoneText /\ strip(row[f]) # ""
    /\ IsIntText(strip(row["Score"])) /\ IsIntText(strip(row["Total Questions"]))
    /\ ~RowOutOfRange(row)

\* C22: import_leaderboard_from_csv creates no category; a row of an unknown
\* category gets a row error ("Unknown category" with the name, when the row
\* passes the checks made before the lookup) and no record is inserted for it;
\* a row of "All Categories" that passes is stored with category id 0
C22_LeaderboardImportCreatesNoCategory ==
    [][(ret'.op = "import_leaderboard" /\ ret'.success) =>
          LET csv == ret'.csv_content
              added == user_scores' \ user_scores
              valid == {k \in DOMAIN csv : LeaderboardRowValid(csv[k])}
          IN  /\ quiz_categories' = quiz_categories
              /\ cat_seq' = cat_seq
              /\ \A k \in DOMAIN csv : CategoryUnknown(csv[k]) =>
                    /\ \E e \in Range(ret'.errors) : e.row = k + 1
                    /\ PassesScoreChecks(csv[k]) =>
                          error(k + 1, "Unknown category", strip(csv[k]["Category"]))
                              \in Range(ret'.errors)
              /\ Cardinality(added) = Cardinality(valid)
              /\ \A r \in added : \E k \in valid :
                    /\ r.username = strip(csv[k]["Username"])
                    /\ r.category_id =
                          IF strip(csv[k]["Category"]) = "All Categories"
                          THEN all_categories_id
                          ELSE name_to_id(quiz_categories)[strip(csv[k]["Category"])]
              /\ \A k \in valid : strip(csv[k]["Category"]) = "All Categories" =>
                    \E r \in added : r.category_id = all_categories_id
                                       /\ r.username = strip(csv[k]["Username"])]_vars

\* an import has rejected a row of "No Such Category", a record imported under
\* "All Categories" being in the table with id 0
C22_Witness ==
    /\ ret.op = "import_leaderboard"
    /\ \E e \in Range(ret.errors) : e.kind = "Unknown category"
                                      /\ e.detail = "No Such Category"
    /\ \E r \in user_scores : r.category_id = all_categories_id /\ r.username = "A"
    /\ \A c \in quiz_categories : c.name # "No Such Category"

(***************************************************************************)
(* The two copies of a question's category.                                *)
(***************************************************************************)
\* C23: for every stored question the category id inside the encrypted payload
\* equals the category_id column of its row
C23_PayloadCategoryIsColumn ==
    \A q \in questions : Plain(q).category_id = q.category_id

\* an imported question of "New Cat" has been moved to another category by the
\* edit form
C23_Witness ==
    /\ ret.op = "update_question"
    /\ \E c \in quiz_categories : c.name = "New Cat"
    /\ \E q \in questions :
          /\ Plain(q).question = "Q2"
          /\ q.id = 1
          /\ q.category_id = name_to_id(quiz_categories)["World & Setting"]
    /\ q_seq = 1

(***************************************************************************)
(* The optional Explanation column.                                        *)
(***************************************************************************)
\* C24: a question-import row whose seven required fields are present and
\* valid is imported whether its Explanation is present, empty or missing (a
\* header without the column, or a row shorter than the header)
C24_ExplanationOptional ==
    (ret.op = "import_questions" /\ Readable(ret.csv_content)) =>
        LET csv == ret.csv_content
            required_ok == {i \in DOMAIN csv : RowFieldsPresent(csv[i]) /\ AnswerValid(csv[i])}
        IN  /\ ret.imported_count = Cardinality(required_ok)
            /\ \A i \in required_ok :
                  QuestionOfRowIn(csv[i], questions \ ret.before.questions)

(***************************************************************************)
(* Answers of the current quiz.                                            *)
(***************************************************************************)
\* C25: in every quiz of a session, Next and Finish for question i are
\* available only after an answer to question i was recorded in the current
\* quiz; at Finish the recorded answers are as many as the questions and the
\* persisted score is the number of correct ones among them
C25_AnswerBeforeNextOrFinish ==
    [][ret'.op \in {"next_question", "complete_quiz"} =>
          /\ Len(answers) = current_question + 1
          /\ ret'.op = "complete_quiz" =>
                /\ Len(answers) = Len(current_quiz.questions)
                /\ \E r \in user_scores' \ user_scores :
                      r.score = Cardinality({i \in DOMAIN answers : answers[i].is_correct})]_vars

(***************************************************************************)
(* Rejected and accepted rows of an import.                                *)
(***************************************************************************)
\* C26: a question-import row that is rejected leaves the store unchanged:
\* every category the call adds is named by a row it accepted, every question
\* it adds is of an accepted row, and no existing question and no score
\* record changes
C26_RejectedRowLeavesStoreUnchanged ==
    [][(ret'.op = "import_questions" /\ ret'.success) =>
          LET csv == ret'.csv_content
              accepted == {i \in DOMAIN csv : QuestionRowValid(csv[i])}
          IN  /\ \A c \in quiz_categories' \ quiz_categories :
                    \E i \in accepted : strip(csv[i]["Category"]) = c.name
              /\ quiz_categories \subseteq quiz_categories'
              /\ questions \subseteq questions'
              /\ Cardinality(questions' \ questions) = Cardinality(accepted)
              /\ user_scores' = user_scores]_vars

\* the records the import that has just returned added to its table
AddedByImport ==
    IF ret.op = "import_questions" THEN questions \ ret.before.questions
    ELSE user_scores \ ret.before

\* C27: for both imports each data row either inserts one record and is
\* counted, or gets at least one error message and inserts nothing; on return
\* imported_count is the number of records the call added to the store
C27_CountIsRecordsAdded ==
    ret.op \in {"import_questions", "import_leaderboard"} =>
        /\ ret.imported_count = Cardinality(AddedByImport)
        /\ ret.success =>
              LET with_error == {i \in DOMAIN ret.csv_content :
                                    \E e \in Range(ret.errors) : e.row = i + 1}
              IN  Cardinality(AddedByImport) =
                      Len(ret.csv_content) - Cardinality(with_error)

(***************************************************************************)
(* Totals of score records.                                                *)
(***************************************************************************)
\* C28: every persisted score record has total_questions >= 1, so its
\* percentage is defined for each reader of the table
C28_TotalQuestionsPositive ==
    \A r \in user_scores : r.total_questions >= 1 /\ percentage(r) # None

(***************************************************************************)
(* Valid rows of interleaved imports.                                      *)
(***************************************************************************)
\* C29: when question imports run interleaved, an import that returns has
\* stored every valid row of its file as a question under the one category
\* of the row's name, also when another import created that category first
C29_NoValidRowLostToRace ==
    [][(ret'.op = "import_questions_end" /\ ret'.success) =>
          LET csv == imports[ret'.importer][1].csv_content
              valid == {i \in DOMAIN csv : QuestionRowValid(csv[i])}
          IN  /\ ret'.imported_count = Cardinality(valid)
              /\ \A i \in valid : QuestionOfRowIn(csv[i], questions')]_vars

(***************************************************************************)
(* Leaderboard export followed by leaderboard import.                      *)
(***************************************************************************)
\* a questions file whose category column names a category 'All Categories'
RoundTripQuestionFiles ==
    { <<qrow("All Categories", "Q1", "a", "b", "c", "d", "A", "")>> }

\* calls of save_score(username, category_id, score, total_questions): for
\* all categories (None) and for each category of the table
RoundTripResults ==
    { [username |-> "Ann", category_id |-> None, score |-> 1, total_questions |-> 2] } \cup
    { [username |-> "Ann", category_id |-> Some(c.id), score |-> 1, total_questions |-> 2] :
        c \in quiz_categories }

\* the file a leaderboard export just returned, uploaded again
ExportedLeaderboardFiles ==
    IF ret.op = "export_leaderboard" THEN {ret.csv} ELSE {}

NextRoundTrip ==
    \/ ImportQuestions(RoundTripQuestionFiles)
    \/ SaveScore(RoundTripResults, MaxScores)
    \/ ExportLeaderboard
    \/ ImportLeaderboard(ExportedLeaderboardFiles, MaxScores)

\* score records of any category, exported and imported again
SpecRoundTrip == Init /\ [][NextRoundTrip]_vars

====
